---- MODULE Spec2Model ----
(***************************************************************************)
(* Model of the "Generate Summaries" batch of src/app.py (DGE Executive    *)
(* Summary Generator V3): an uploaded table is walked row by row, each row *)
(* is normalised (name, pronoun, competency lines), rendered into a prompt *)
(* and sent to the external text-generation service; the returned text or  *)
(* a failure marker is accumulated and finally written as one column of a  *)
(* copy of the table.                                                      *)
(*                                                                         *)
(* Text values are sequences of string pieces (<<"M">>, <<" ", "a">>), so  *)
(* that str.upper() and str.strip() are computed piece by piece.  Column   *)
(* names, which are only used as keys, are plain strings.                  *)
(***************************************************************************)
EXTENDS Integers, Sequences, FiniteSets, TLC

VARIABLES
    df,                  \* the uploaded table: [columns, rows]
    pc,                  \* position of the script: start, loop, calling, done, stopped, aborted
    i,                   \* position (1-based) of the row the loop is at
    pronouns,            \* pronoun resolved for each row that reached line 218..225
    calls,               \* external calls started so far, in order
    replies,             \* what the external service did for each finished call
    generated_summaries, \* the accumulating result list
    messages,            \* what was shown in the UI (st.warning / st.error / ...)
    output_df            \* <<>> until the output table is built, then <<table>>

vars == <<df, pc, i, pronouns, calls, replies, generated_summaries, messages, output_df>>

----------------------------------------------------------------------------
(* Bounds of the model *)

MaxRows == 2

----------------------------------------------------------------------------
(* Cells of the table *)

NaN == [kind |-> "nan", s |-> <<>>, tenths |-> 0]

Text(s) == [kind |-> "str", s |-> s, tenths |-> 0]

\* A number, kept in tenths: Num(35) is 3.5, Num(40) is 4 (or 4.0).
Num(t) == [kind |-> "num", s |-> <<>>, tenths |-> t]

Range(f) == {f[x] : x \in DOMAIN f}

\* pd.notna(cell)
notna(cell) == cell.kind # "nan"

Digit(d) ==
    CASE d = 0 -> "0" [] d = 1 -> "1" [] d = 2 -> "2" [] d = 3 -> "3" [] d = 4 -> "4"
      [] d = 5 -> "5" [] d = 6 -> "6" [] d = 7 -> "7" [] d = 8 -> "8" [] d = 9 -> "9"

RECURSIVE NatStr(_)
NatStr(n) == IF n < 10 THEN <<Digit(n)>> ELSE NatStr(n \div 10) \o <<Digit(n % 10)>>

\* str(n) of a Python int
IntStr(n) == IF n < 0 THEN <<"-">> \o NatStr(-n) ELSE NatStr(n)

\* str(cell): a text is itself, a missing cell is "nan", a number is its decimal form.
Str(cell) ==
    CASE cell.kind = "str" -> cell.s
      [] cell.kind = "nan" -> <<"n", "a", "n">>
      [] cell.kind = "num" ->
            LET t == cell.tenths
                a == IF t < 0 THEN -t ELSE t
            IN  (IF t < 0 THEN <<"-">> ELSE <<>>) \o NatStr(a \div 10) \o <<".">> \o NatStr(a % 10)

UpperPiece(p) ==
    CASE p = "m" -> "M" [] p = "f" -> "F" [] p = "x" -> "X" [] p = "a" -> "A"
      [] p = "n" -> "N" [] OTHER -> p

\* str.upper()
Upper(s) == [k \in 1..Len(s) |-> UpperPiece(s[k])]

IsSpace(p) == p \in {" ", "\n", "\t"}

RECURSIVE LStrip(_)
LStrip(s) == IF s # <<>> /\ IsSpace(Head(s)) THEN LStrip(Tail(s)) ELSE s

RECURSIVE RStrip(_)
RStrip(s) == IF s # <<>> /\ IsSpace(s[Len(s)]) THEN RStrip(SubSeq(s, 1, Len(s) - 1)) ELSE s

\* str.strip()
Strip(s) == RStrip(LStrip(s))

IsDigit(p) == p \in {"0", "1", "2", "3", "4", "5", "6", "7", "8", "9"}

DigitVal(p) == CHOOSE d \in 0..9 : Digit(d) = p

RECURSIVE DigitsVal(_)
DigitsVal(s) == IF s = <<>> THEN 0 ELSE 10 * DigitsVal(SubSeq(s, 1, Len(s) - 1)) + DigitVal(s[Len(s)])

\* int(cell) raises ValueError: a text that is not an integer literal
\* (surrounding whitespace is allowed, an empty or non-digit text is not).
IntRaises(cell) ==
    /\ cell.kind = "str"
    /\ LET t == Strip(cell.s) IN t = <<>> \/ \E k \in 1..Len(t) : ~IsDigit(t[k])

\* int(cell) where it does not raise: a number is truncated toward zero,
\* an integer literal is parsed.
int(cell) ==
    IF cell.kind = "str" THEN DigitsVal(Strip(cell.s))
    ELSE IF cell.tenths >= 0 THEN cell.tenths \div 10 ELSE -((-cell.tenths) \div 10)

----------------------------------------------------------------------------
(* The program's constants *)

all_known_competencies ==
    << "Strategic Thinker", "Impactful Decision Maker", "Effective Collaborator",
       "Talent Nurturer", "Results Driver", "Customer Advocate",
       "Transformation Enabler", "Innovation Catalyst" >>

FailureMarker == <<"Error: Failed to generate summary.">>

SummaryColumn == "Executive Summary"

----------------------------------------------------------------------------
(* The uploaded tables the model draws from *)

\* Column layouts: the template's order, competencies in another order than
\* the fixed list with an unknown column between them, a missing 'gender'
\* column, a missing 'first_name' column, a table that already has an
\* 'Executive Summary' column, and a table without competency columns.
Layouts ==
    { << "first_name", "gender", "Strategic Thinker", "Results Driver" >>,
      << "first_name", "gender", "Results Driver", "Unknown Col", "Strategic Thinker" >>,
      << "first_name", "Strategic Thinker" >>,
      << "gender", "Strategic Thinker" >>,
      << "first_name", "gender", "Strategic Thinker", "Executive Summary" >>,
      << "first_name", "gender" >> }

GenderCells ==
    { Text(<<"M">>), Text(<<"m">>), Text(<<"F">>), Text(<<"f">>), Text(<<"X">>), NaN }

\* 4, 3.5, an empty cell, and a text that is not a number.
ScoreCells == { Num(40), Num(35), NaN, Text(<<"four">>) }

OtherCell(col) ==
    CASE col = "first_name" -> Text(<<"Ann">>)
      [] col = "Unknown Col" -> Num(90)
      [] col = "Executive Summary" -> Text(<<"old">>)
      [] OTHER -> NaN

\* The rows a layout may hold: every gender cell with scores of 4, and every
\* combination of score cells with gender "M".
RowPool(cols) ==
    LET known == Range(cols) \cap Range(all_known_competencies)
        row(g, sc) == [c \in Range(cols) |->
                          IF c = "gender" THEN g
                          ELSE IF c \in known THEN sc[c] ELSE OtherCell(c)]
    IN  { row(g, sc) : g \in GenderCells, sc \in [known -> {Num(40)}] }
          \cup { row(g, sc) : g \in {Text(<<"M">>)}, sc \in [known -> ScoreCells] }

Tables ==
    UNION { { [columns |-> cols, rows |-> rs] : rs \in [1..n -> RowPool(cols)] } :
            cols \in Layouts, n \in 0..MaxRows }

\* What the external service may do with a call: return a text (with
\* surrounding whitespace, or nothing but whitespace), or fail.
ServiceTexts == { <<" ", "Summary A.", "\n">>, <<"Summary B.">>, <<" ">> }

----------------------------------------------------------------------------
(* The row normaliser (lines 205, 216..233) *)

Columns == Range(df.columns)

NRows == Len(df.rows)

\* Mutant of competency_columns: every column that is not an identifier column
\* (line 199) counts as a competency.
competency_columns_not_identifier ==
    SelectSeq(df.columns, LAMBDA col :
        col \notin {"email", "first_name", "last_name", "level", "gender"})

\* competency_columns: the table's columns that are known competencies, in
\* the order of the table's columns.
competency_columns ==
    SelectSeq(df.columns, LAMBDA col : col \in Range(all_known_competencies))

\* Mutant of KeyError: the lookup is row.get(col), which never raises.
KeyErrorNever(row, col) == FALSE

\* row[col] raises KeyError: the row has no such label.
KeyError(row, col) == col \notin DOMAIN row

\* row[col] where it does not raise.
Get(row, col) == IF col \in DOMAIN row THEN row[col] ELSE NaN

\* Mutant of Pronoun: the comparison without .upper().
PronounCaseSensitive(cell) ==
    LET gender_input == Str(cell)
    IN  IF gender_input = <<"M">> THEN "He"
        ELSE IF gender_input = <<"F">> THEN "She"
        ELSE "They"

\* Lines 218..225: the pronoun of a gender cell.
Pronoun(cell) ==
    LET gender_input == Upper(Str(cell))
    IN  IF gender_input = <<"M">> THEN "He"
        ELSE IF gender_input = <<"F">> THEN "She"
        ELSE "They"

\* Line 224: the else branch, which warns.
GenderWarns(cell) ==
    LET gender_input == Upper(Str(cell))
    IN  gender_input # <<"M">> /\ gender_input # <<"F">>

\* Line 231: the competencies of the row that get a line.
ScoredColumns(row) ==
    SelectSeq(competency_columns, LAMBDA c : c \in DOMAIN row /\ notna(row[c]))

\* Line 232 raises for one of them.
ScoresRaise(row) ==
    \E k \in 1..Len(ScoredColumns(row)) : IntRaises(row[ScoredColumns(row)[k]])

\* Lines 229..232: scores_data, each line f"- {competency}: {int(row[competency])}"
\* kept as the two values substituted into it.
scores_data(row) ==
    [k \in 1..Len(ScoredColumns(row)) |->
        [label |-> ScoredColumns(row)[k], value |-> int(row[ScoredColumns(row)[k]])]]

LineText(line) == <<"- ", line.label, ": ">> \o IntStr(line.value)

\* Line 233: "\n".join(scores_data)
RECURSIVE Join(_)
Join(lines) ==
    IF lines = <<>> THEN <<>>
    ELSE IF Len(lines) = 1 THEN LineText(lines[1])
    ELSE LineText(lines[1]) \o <<"\n">> \o Join(Tail(lines))

\* Lines 20..107: the template with its twelve slots; the literal text
\* between two slots is one piece.
create_master_prompt(person_name, pronoun, person_data) ==
    <<"T0: Core Objective ">> \o person_name
      \o <<"T1: Input Data for ">> \o person_name
      \o <<"T2: <InputData>">> \o person_data
      \o <<"T3: rules 1-2, Incorrect ">> \o person_name
      \o <<"T4: Correct ">> \o person_name
      \o <<"T5: or ">> \o <<pronoun>>
      \o <<"T6: rules 3-4 ">> \o person_name
      \o <<"T7: OR ">> \o person_name
      \o <<"T8: rules 5-6 ">> \o person_name
      \o <<"T9: only the provided pronoun ">> \o <<pronoun>>
      \o <<"T10: forbidden content, examples, Final Instruction for ">> \o person_name
      \o <<"T11: Now, process ">> \o person_name
      \o <<"T12: Adhering to every rule above">>

----------------------------------------------------------------------------
(* The batch (lines 189..266) *)

Message(kind, row) == [kind |-> kind, row |-> row]

Init ==
    /\ df \in Tables
    /\ pc = "start"
    /\ i = 0
    /\ pronouns = <<>>
    /\ calls = <<>>
    /\ replies = <<>>
    /\ generated_summaries = <<>>
    /\ messages = <<>>
    /\ output_df = <<>>

\* Lines 208..210: no 'gender' column: st.error and st.stop().
MissingGender ==
    /\ pc = "start"
    /\ "gender" \notin Columns
    /\ messages' = Append(messages, Message("missing_gender", 0))
    /\ pc' = "stopped"
    /\ UNCHANGED <<df, i, pronouns, calls, replies, generated_summaries, output_df>>

\* Lines 212..215: the loop is entered.
StartLoop ==
    /\ pc = "start"
    /\ "gender" \in Columns
    /\ generated_summaries' = <<>>
    /\ i' = 1
    /\ pc' = "loop"
    /\ UNCHANGED <<df, pronouns, calls, replies, messages, output_df>>

\* What lines 218..227 show for a row.
RowMessages(row) ==
    (IF GenderWarns(Get(row, "gender")) THEN <<Message("warning", i)>> ELSE <<>>)
        \o <<Message("processing", i)>>

\* Line 216 raises KeyError (or line 218 would): caught at line 265.
RowKeyError ==
    /\ pc = "loop"
    /\ i <= NRows
    /\ \/ KeyError(df.rows[i], "first_name")
       \/ KeyError(df.rows[i], "gender")
    /\ messages' = Append(messages, Message("exception", i))
    /\ pc' = "aborted"
    /\ UNCHANGED <<df, i, pronouns, calls, replies, generated_summaries, output_df>>

\* Lines 216..232 where int() raises: the pronoun is resolved and the row
\* announced, then the exception is caught at line 265.
RowValueError ==
    /\ pc = "loop"
    /\ i <= NRows
    /\ ~KeyError(df.rows[i], "first_name")
    /\ ~KeyError(df.rows[i], "gender")
    /\ ScoresRaise(df.rows[i])
    /\ pronouns' = Append(pronouns, Pronoun(Get(df.rows[i], "gender")))
    /\ messages' = messages \o RowMessages(df.rows[i]) \o <<Message("exception", i)>>
    /\ pc' = "aborted"
    /\ UNCHANGED <<df, i, calls, replies, generated_summaries, output_df>>

\* Lines 216..237 up to the request being sent.
RowCall ==
    /\ pc = "loop"
    /\ i <= NRows
    /\ ~KeyError(df.rows[i], "first_name")
    /\ ~KeyError(df.rows[i], "gender")
    /\ ~ScoresRaise(df.rows[i])
    /\ LET row == df.rows[i]
           pronoun == Pronoun(Get(row, "gender"))
           lines == scores_data(row)
           prompt == create_master_prompt(Str(Get(row, "first_name")), pronoun, Join(lines))
       IN  /\ pronouns' = Append(pronouns, pronoun)
           /\ calls' = Append(calls, [row |-> i, lines |-> lines, prompt |-> prompt])
    /\ messages' = messages \o RowMessages(df.rows[i])
    /\ pc' = "calling"
    /\ UNCHANGED <<df, i, replies, generated_summaries, output_df>>

\* What generate_summary_azure returns (lines 132..135): the stripped text, or None.
Returned(text) == [none |-> FALSE, text |-> Strip(text)]

None == [none |-> TRUE, text |-> <<>>]

\* Line 239: `if summary`
Truthy(summary) == ~summary.none /\ summary.text # <<>>

\* Lines 239..246: the summary or the failure marker is appended and the
\* loop moves to the next row.
Record(summary) ==
    /\ generated_summaries' =
          Append(generated_summaries, IF Truthy(summary) THEN summary.text ELSE FailureMarker)
    /\ messages' = Append(messages,
          Message(IF Truthy(summary) THEN "success" ELSE "failed", i))
    /\ i' = i + 1
    /\ pc' = "loop"

\* The service returns a text.
CallReturns ==
    /\ pc = "calling"
    /\ \E text \in ServiceTexts :
          /\ replies' = Append(replies, [kind |-> "text", text |-> text])
          /\ Record(Returned(text))
    /\ UNCHANGED <<df, pronouns, calls, output_df>>

\* Mutant of CallRaises: a failed call is tried again for the same row.
CallRaisesRetry ==
    /\ pc = "calling"
    /\ replies' = Append(replies, [kind |-> "raise", text |-> <<>>])
    /\ messages' = Append(messages, Message("api_error", i))
    /\ pc' = "loop"
    /\ UNCHANGED <<df, i, pronouns, calls, generated_summaries, output_df>>

\* The client raises: line 134 shows the error and None is returned.
CallRaises ==
    /\ pc = "calling"
    /\ replies' = Append(replies, [kind |-> "raise", text |-> <<>>])
    /\ generated_summaries' = Append(generated_summaries, FailureMarker)
    /\ messages' = messages \o <<Message("api_error", i), Message("failed", i)>>
    /\ i' = i + 1
    /\ pc' = "loop"
    /\ UNCHANGED <<df, pronouns, calls, output_df>>

\* output_df[col] = values on a table: an existing column of that label is
\* overwritten, a new label is appended as the last column.
WithColumn(t, col, values) ==
    [columns |-> IF col \in Range(t.columns) THEN t.columns ELSE Append(t.columns, col),
     rows |-> [k \in 1..Len(t.rows) |->
                  [c \in DOMAIN t.rows[k] \cup {col} |->
                      IF c = col THEN Text(values[k]) ELSE t.rows[k][c]]]]

\* Mutant of Finish: the column is written into df itself (no df.copy()).
FinishInPlace ==
    /\ pc = "loop"
    /\ i > NRows
    /\ df' = IF generated_summaries # <<>>
             THEN WithColumn(df, SummaryColumn, generated_summaries) ELSE df
    /\ output_df' = IF generated_summaries # <<>> THEN <<df'>> ELSE output_df
    /\ pc' = "done"
    /\ UNCHANGED <<i, pronouns, calls, replies, generated_summaries, messages>>

\* Lines 248..263: the loop is over.
Finish ==
    /\ pc = "loop"
    /\ i > NRows
    /\ output_df' = IF generated_summaries # <<>>
                    THEN <<WithColumn(df, SummaryColumn, generated_summaries)>>
                    ELSE output_df
    /\ pc' = "done"
    /\ UNCHANGED <<df, i, pronouns, calls, replies, generated_summaries, messages>>

Next ==
    \/ MissingGender
    \/ StartLoop
    \/ RowKeyError
    \/ RowValueError
    \/ RowCall
    \/ CallReturns
    \/ CallRaises
    \/ Finish

Spec == Init /\ [][Next]_vars

----------------------------------------------------------------------------
(* Helpers of the properties *)

HasIdentityColumns == "first_name" \in Columns /\ "gender" \in Columns

WarnCount(k) ==
    Cardinality({m \in DOMAIN messages : messages[m] = Message("warning", k)})

Labels(lines) == [k \in 1..Len(lines) |-> lines[k].label]

\* The position of a column in the uploaded table.
ColumnIndex(col) == CHOOSE k \in 1..Len(df.columns) : df.columns[k] = col

IsHe(cell) == cell \in {Text(<<"M">>), Text(<<"m">>)}

IsShe(cell) == cell \in {Text(<<"F">>), Text(<<"f">>)}

Completes == pc = "loop" /\ pc' = "done"

----------------------------------------------------------------------------
(* The claims *)

\* C1: if the external call fails for row N (and for no other row), the
\* batch still goes on to every later row, the failure marker is recorded
\* at row N and at no other row, and every other row holds its own returned
\* (stripped) text, whatever happened to row N.
C1_FailureIsolated ==
    \A n \in DOMAIN replies :
        (/\ replies[n].kind = "raise"
         /\ \A j \in DOMAIN replies : j # n => replies[j].kind = "text")
        => /\ pc # "aborted"
           /\ generated_summaries[n] = FailureMarker
           /\ \A j \in DOMAIN generated_summaries :
                 j # n => /\ generated_summaries[j] # FailureMarker
                          /\ generated_summaries[j] = Strip(replies[j].text)

\* C5: no condition met while normalising a row is fatal: a table that has
\* the identity columns is never aborted, whatever its cells hold.
C5_NoRowIsFatal ==
    HasIdentityColumns => pc # "aborted"

\* C8: the value on a competency line equals the row's own numeric score for
\* that competency, integer or decimal.
C8_LineCarriesScore ==
    \A k \in DOMAIN calls :
        \A l \in DOMAIN calls[k].lines :
            LET line == calls[k].lines[l]
                cell == df.rows[calls[k].row][line.label]
            IN  cell.kind = "num" => 10 * line.value = cell.tenths

\* C10: whenever the service returned a text without raising, the row holds
\* the stripped text and not the failure marker.
C10_MarkerOnlyOnFailure ==
    \A k \in DOMAIN generated_summaries :
        replies[k].kind = "text"
        => /\ generated_summaries[k] = Strip(replies[k].text)
           /\ generated_summaries[k] # FailureMarker

\* C2: for every row whose gender was resolved, the pronoun is "He" for an
\* "M" or "m" cell, "She" for an "F" or "f" cell and "They" for any other
\* cell, an empty one included; exactly one warning was shown for the row in
\* the last case and none otherwise; and a row is sent to the service only
\* after its pronoun has been resolved.
C2_PronounOfGender ==
    /\ \A k \in DOMAIN pronouns :
          LET cell == df.rows[k]["gender"]
          IN  /\ IsHe(cell) => pronouns[k] = "He" /\ WarnCount(k) = 0
              /\ IsShe(cell) => pronouns[k] = "She" /\ WarnCount(k) = 0
              /\ ~IsHe(cell) /\ ~IsShe(cell) => pronouns[k] = "They" /\ WarnCount(k) = 1
    /\ \A k \in 1..NRows : k > Len(pronouns) => WarnCount(k) = 0
    /\ \A k \in DOMAIN calls : calls[k].row <= Len(pronouns)

\* C2 witness: a lower-case "m" row and an empty-gender row were both resolved.
C2_Witness ==
    /\ Len(pronouns) = 2
    /\ df.rows[1]["gender"] = Text(<<"m">>)
    /\ df.rows[2]["gender"] = NaN

\* C3 as stated: the competency lines of every row sent to the service are
\* one line per recognized non-null column of the row, in the order of the
\* fixed 8-label list.
C3_FixedListOrder ==
    \A k \in DOMAIN calls :
        LET row == df.rows[calls[k].row]
        IN  Labels(calls[k].lines) =
                SelectSeq(all_known_competencies,
                          LAMBDA c : c \in DOMAIN row /\ notna(row[c]))

\* C3 amended: the competency lines of every row sent to the service are
\* exactly one line per recognized column that is present and non-null in
\* the row (no line for an unknown column or a null score), and the lines
\* appear in the order of the uploaded table's columns.
C3_TableColumnOrder ==
    \A k \in DOMAIN calls :
        LET row == df.rows[calls[k].row]
            labels == Labels(calls[k].lines)
        IN  /\ Range(labels) =
                  {c \in Range(all_known_competencies) : c \in DOMAIN row /\ notna(row[c])}
            /\ \A p, q \in DOMAIN labels :
                  p < q => ColumnIndex(labels[p]) < ColumnIndex(labels[q])

\* C3 witness: a row whose table has 'Results Driver' before 'Strategic
\* Thinker' and an unknown column got its two lines, and a row with a null
\* score got one line less.
C3_Witness ==
    /\ Len(calls) = 2
    /\ Labels(calls[1].lines) = <<"Results Driver", "Strategic Thinker">>
    /\ "Unknown Col" \in Columns
    /\ df.rows[2]["Results Driver"] = NaN
    /\ Labels(calls[2].lines) = <<"Strategic Thinker">>

\* C4: on a table without the 'first_name' or the 'gender' column no
\* external call is ever started and no output table is built.
C4_NoCallWithoutIdentity ==
    ~HasIdentityColumns => calls = <<>> /\ pc # "calling" /\ output_df = <<>>

\* C4 witness: a table of two rows without 'first_name' was aborted at its
\* first row.
C4_Witness ==
    /\ "first_name" \notin Columns
    /\ NRows >= 2
    /\ pc = "aborted"

\* What the result list holds when the loop is over: one entry per row, in
\* row order, each the outcome of that row's own call.
OneResultPerRow(summaries) ==
    /\ Len(summaries) = NRows
    /\ Len(replies) = NRows
    /\ \A k \in 1..NRows :
          /\ calls[k].row = k
          /\ replies[k].kind = "raise" => summaries[k] = FailureMarker
          /\ replies[k].kind = "text" =>
                summaries[k] \in {Strip(replies[k].text), FailureMarker}

\* C6 as stated: the step that completes a batch leaves the uploaded table
\* as it was and builds an output table that is the uploaded table with
\* exactly one column appended: the same rows in the same order, every input
\* cell unchanged, and at row k the result of the call made for row k.
C6_OneColumnAppended ==
    [][Completes =>
        /\ df' = df
        /\ OneResultPerRow(generated_summaries')
        /\ Len(output_df') = 1
        /\ LET out == output_df'[1]
           IN  /\ out.columns = Append(df.columns, SummaryColumn)
               /\ Len(out.rows) = NRows
               /\ \A k \in 1..NRows :
                     /\ DOMAIN out.rows[k] = Columns \cup {SummaryColumn}
                     /\ \A c \in Columns : out.rows[k][c] = df.rows[k][c]
                     /\ out.rows[k][SummaryColumn] = Text(generated_summaries'[k])
    ]_vars

\* C6 amended: the step that completes a batch over a table of at least one
\* row leaves the uploaded table as it was and builds an output table with
\* the same rows in the same order, in which the 'Executive Summary' column
\* holds at row k the result of the call made for row k and every other
\* input cell is unchanged; that column is appended as the last column when
\* the uploaded table has no column of that name, and replaces the uploaded
\* column of that name otherwise.  A batch over a table of no rows completes
\* without an output table.
C6_SummaryColumnSet ==
    [][Completes =>
        /\ df' = df
        /\ OneResultPerRow(generated_summaries')
        /\ NRows = 0 => output_df' = <<>>
        /\ NRows > 0 =>
              /\ Len(output_df') = 1
              /\ LET out == output_df'[1]
                 IN  /\ out.columns = IF SummaryColumn \in Columns THEN df.columns
                                       ELSE Append(df.columns, SummaryColumn)
                     /\ Len(out.rows) = NRows
                     /\ \A k \in 1..NRows :
                           /\ DOMAIN out.rows[k] = Columns \cup {SummaryColumn}
                           /\ \A c \in Columns \ {SummaryColumn} :
                                 out.rows[k][c] = df.rows[k][c]
                           /\ out.rows[k][SummaryColumn] = Text(generated_summaries'[k])
    ]_vars

\* C6 witness: a completed batch of two rows, one narrative and one failure
\* marker, with the column appended to a table that had none of that name.
C6_Witness ==
    /\ pc = "done"
    /\ NRows = 2
    /\ SummaryColumn \notin Columns
    /\ Len(output_df) = 1
    /\ output_df[1].columns = Append(df.columns, SummaryColumn)
    /\ output_df[1].rows[1][SummaryColumn] = Text(<<"Summary A.">>)
    /\ output_df[1].rows[2][SummaryColumn] = Text(FailureMarker)

\* C7: calls are started one per row in row order, a call is started only
\* when every earlier call has returned or failed, no call is repeated, and
\* a completed batch over n rows has made exactly n calls.
C7_SequentialNoRetry ==
    /\ \A k \in DOMAIN calls : calls[k].row = k
    /\ Len(calls) = Len(replies) + (IF pc = "calling" THEN 1 ELSE 0)
    /\ Len(generated_summaries) = Len(replies)
    /\ pc \in {"loop", "calling"} => i = Len(replies) + 1
    /\ pc = "done" => Len(calls) = NRows /\ Len(replies) = NRows

\* C7 witness: a batch of two rows completed although the first call failed.
C7_Witness ==
    /\ pc = "done"
    /\ NRows = 2
    /\ replies[1].kind = "raise"
    /\ Len(calls) = 2

====
